---- MODULE Spec2Model ----
(***************************************************************************)
(* Tempo-BT group 64 plugin for smpmgr (plugins/tempo_group.py).           *)
(*                                                                         *)
(* The module models the message catalog (the request/response classes and *)
(* their group and command identifiers) and the CLI command handlers.  A   *)
(* behaviour is one CLI invocation, one run of a handler: the synchronous  *)
(* body (argument validation), then the coroutine f(): await               *)
(* connect_with_spinner, build and send one request, await the response,   *)
(* print.                                                                  *)
(*                                                                         *)
(* Strings whose characters the code inspects (the led-on color, the BLE   *)
(* name) are sequences of one-character strings; strings the code only     *)
(* compares or passes on are TLA+ strings.  Optional values are sequences  *)
(* of length at most one: None is <<>>, a supplied value v is <<v>>.       *)
(***************************************************************************)
EXTENDS Integers, Sequences, FiniteSets, TLC

VARIABLES
    catalog,     \* the message classes the imported plugin module defines
    pc,          \* position of the current invocation
    cmd,         \* name of the CLI command being run ("" in the shell)
    args,        \* the parsed command-line arguments of the invocation
    connected,   \* connect_with_spinner has returned in this invocation
    connects,    \* number of connect_with_spinner calls in this invocation
    sent,        \* requests handed to smpclient.request in this invocation
    response,    \* Option: the response smpclient.request returned
    console,     \* messages printed by the handler, in order
    exit_code    \* Option: the exit code of the finished invocation

vars == <<catalog, pc, cmd, args, connected, connects, sent, response, console,
          exit_code>>

None == <<>>
Some(v) == <<v>>

----------------------------------------------------------------------------
(* Bounds of the model                                                     *)

\* BLE names are tried up to this many characters beyond the limit
BleNameOver == 2

----------------------------------------------------------------------------
(* Constants matching mcumgr_custom.c                                      *)

MGMT_GROUP_ID_TEMPO == 64

TEMPO_MGMT_ID_SESSION_LIST == 0
TEMPO_MGMT_ID_SESSION_INFO == 1
TEMPO_MGMT_ID_STORAGE_INFO == 2
TEMPO_MGMT_ID_LED_CONTROL == 3
TEMPO_MGMT_ID_LOGGER_CONTROL == 4
TEMPO_MGMT_ID_SESSION_DELETE == 5
TEMPO_MGMT_ID_SETTINGS_GET == 6
TEMPO_MGMT_ID_SETTINGS_SET == 7

\* the command IDs the plugin declares, by name
CommandIds ==
    [ SESSION_LIST   |-> TEMPO_MGMT_ID_SESSION_LIST,
      SESSION_INFO   |-> TEMPO_MGMT_ID_SESSION_INFO,
      STORAGE_INFO   |-> TEMPO_MGMT_ID_STORAGE_INFO,
      LED_CONTROL    |-> TEMPO_MGMT_ID_LED_CONTROL,
      LOGGER_CONTROL |-> TEMPO_MGMT_ID_LOGGER_CONTROL,
      SESSION_DELETE |-> TEMPO_MGMT_ID_SESSION_DELETE,
      SETTINGS_GET   |-> TEMPO_MGMT_ID_SETTINGS_GET,
      SETTINGS_SET   |-> TEMPO_MGMT_ID_SETTINGS_SET ]

DeclaredOpcodes == { CommandIds[n] : n \in DOMAIN CommandIds }

----------------------------------------------------------------------------
(* Message catalog: each class that sets _GROUP_ID and _COMMAND_ID.        *)
(* kind is "request" for subclasses of smpmsg.ReadRequest / WriteRequest   *)
(* and "response" for subclasses of smpmsg.ReadResponse / WriteResponse.   *)

MessageClass(name, kind, base, command_id) ==
    [ name |-> name, kind |-> kind, base |-> base,
      group |-> MGMT_GROUP_ID_TEMPO, opcode |-> command_id ]

SessionListRequest ==
    MessageClass("SessionListRequest", "request", "ReadRequest",
                 TEMPO_MGMT_ID_SESSION_LIST)
SessionListResponse ==
    MessageClass("SessionListResponse", "response", "ReadResponse",
                 TEMPO_MGMT_ID_SESSION_LIST)
StorageInfoRequest ==
    MessageClass("StorageInfoRequest", "request", "ReadRequest",
                 TEMPO_MGMT_ID_STORAGE_INFO)
StorageInfoResponse ==
    MessageClass("StorageInfoResponse", "response", "ReadResponse",
                 TEMPO_MGMT_ID_STORAGE_INFO)
LEDControlRequest ==
    MessageClass("LEDControlRequest", "request", "WriteRequest",
                 TEMPO_MGMT_ID_LED_CONTROL)
LEDControlResponse ==
    MessageClass("LEDControlResponse", "response", "WriteResponse",
                 TEMPO_MGMT_ID_LED_CONTROL)
LoggerControlRequest ==
    MessageClass("LoggerControlRequest", "request", "WriteRequest",
                 TEMPO_MGMT_ID_LOGGER_CONTROL)
LoggerControlResponse ==
    MessageClass("LoggerControlResponse", "response", "WriteResponse",
                 TEMPO_MGMT_ID_LOGGER_CONTROL)
SettingsGetRequest ==
    MessageClass("SettingsGetRequest", "request", "ReadRequest",
                 TEMPO_MGMT_ID_SETTINGS_GET)
SettingsGetResponse ==
    MessageClass("SettingsGetResponse", "response", "ReadResponse",
                 TEMPO_MGMT_ID_SETTINGS_GET)
SettingsSetRequest ==
    MessageClass("SettingsSetRequest", "request", "WriteRequest",
                 TEMPO_MGMT_ID_SETTINGS_SET)
SettingsSetResponse_SharedOpcode ==
    MessageClass("SettingsSetResponse", "response", "WriteResponse",
                 TEMPO_MGMT_ID_SETTINGS_GET)
SettingsSetResponse ==
    MessageClass("SettingsSetResponse", "response", "WriteResponse",
                 TEMPO_MGMT_ID_SETTINGS_SET)
SessionDeleteRequest ==
    MessageClass("SessionDeleteRequest", "request", "WriteRequest",
                 TEMPO_MGMT_ID_SESSION_DELETE)
SessionDeleteResponse ==
    MessageClass("SessionDeleteResponse", "response", "WriteResponse",
                 TEMPO_MGMT_ID_SESSION_DELETE)

Catalog ==
    { SessionListRequest, SessionListResponse,
      StorageInfoRequest, StorageInfoResponse,
      LEDControlRequest, LEDControlResponse,
      LoggerControlRequest, LoggerControlResponse,
      SettingsGetRequest, SettingsGetResponse,
      SettingsSetRequest, SettingsSetResponse,
      SessionDeleteRequest, SessionDeleteResponse }

RequestTypes(classes) == { c \in classes : c.kind = "request" }
ResponseTypes(classes) == { c \in classes : c.kind = "response" }

(* The command classes: class X(XRequest) with _Response = XResponse.  The *)
(* command class inherits _GROUP_ID and _COMMAND_ID from its request base. *)
CommandClass(name, request, rsp) ==
    [ name |-> name, request |-> request, response |-> rsp,
      group |-> request.group, opcode |-> request.opcode ]

SessionList == CommandClass("SessionList", SessionListRequest, SessionListResponse)
StorageInfo == CommandClass("StorageInfo", StorageInfoRequest, StorageInfoResponse)
LEDControl == CommandClass("LEDControl", LEDControlRequest, LEDControlResponse)
LoggerControl ==
    CommandClass("LoggerControl", LoggerControlRequest, LoggerControlResponse)
SettingsGet == CommandClass("SettingsGet", SettingsGetRequest, SettingsGetResponse)
SettingsSet == CommandClass("SettingsSet", SettingsSetRequest, SettingsSetResponse)
SessionDelete ==
    CommandClass("SessionDelete", SessionDeleteRequest, SessionDeleteResponse)

Operations ==
    { SessionList, StorageInfo, LEDControl, LoggerControl,
      SettingsGet, SettingsSet, SessionDelete }

----------------------------------------------------------------------------
(* Python string operations used by led_on, on sequences of characters.    *)

LowerCase ==
    << "a","b","c","d","e","f","g","h","i","j","k","l","m",
       "n","o","p","q","r","s","t","u","v","w","x","y","z" >>
UpperCase ==
    << "A","B","C","D","E","F","G","H","I","J","K","L","M",
       "N","O","P","Q","R","S","T","U","V","W","X","Y","Z" >>
Digits == << "0","1","2","3","4","5","6","7","8","9" >>
Whitespace == { " " }

IsUpper(c) == \E i \in 1..Len(UpperCase) : UpperCase[i] = c
IsLower(c) == \E i \in 1..Len(LowerCase) : LowerCase[i] = c
IndexIn(seq, c) == CHOOSE i \in 1..Len(seq) : seq[i] = c

\* str.lower()
lower(s) ==
    [ i \in 1..Len(s) |->
        IF IsUpper(s[i]) THEN LowerCase[IndexIn(UpperCase, s[i])] ELSE s[i] ]

\* str.upper() of one character (used to enumerate spellings of an input)
upper_char(c) == IF IsLower(c) THEN UpperCase[IndexIn(LowerCase, c)] ELSE c

\* str.startswith(ch) for a one-character prefix
startswith(s, ch) == Len(s) >= 1 /\ s[1] = ch

\* str.lstrip(ch): removes every leading occurrence of ch
RECURSIVE lstrip(_, _)
lstrip(s, ch) == IF s # <<>> /\ s[1] = ch THEN lstrip(Tail(s), ch) ELSE s

RECURSIVE rstrip_ws(_)
rstrip_ws(s) ==
    IF s # <<>> /\ s[Len(s)] \in Whitespace
    THEN rstrip_ws(SubSeq(s, 1, Len(s) - 1)) ELSE s

RECURSIVE lstrip_ws(_)
lstrip_ws(s) == IF s # <<>> /\ s[1] \in Whitespace THEN lstrip_ws(Tail(s)) ELSE s

\* Python slice s[lo:hi] (0-based, hi exclusive, clipped to the string)
slice(s, lo, hi) ==
    LET h == IF hi > Len(s) THEN Len(s) ELSE hi
    IN  IF lo >= h THEN <<>> ELSE SubSeq(s, lo + 1, h)

IsHexDigit(c) ==
    \/ \E i \in 1..Len(Digits) : Digits[i] = c
    \/ \E i \in 1..6 : LowerCase[i] = c \/ UpperCase[i] = c

HexDigitValue(c) ==
    IF \E i \in 1..Len(Digits) : Digits[i] = c THEN IndexIn(Digits, c) - 1
    ELSE IF \E i \in 1..6 : LowerCase[i] = c THEN IndexIn(LowerCase, c) + 9
    ELSE IndexIn(UpperCase, c) + 9

RECURSIVE HexDigitsValue(_)
HexDigitsValue(s) ==
    IF s = <<>> THEN 0
    ELSE 16 * HexDigitsValue(SubSeq(s, 1, Len(s) - 1)) + HexDigitValue(s[Len(s)])

(* int(s, 16) for a string of at most two characters: surrounding          *)
(* whitespace is stripped, one sign is accepted, and what remains must be  *)
(* one or two hexadecimal digits (a "0x" prefix or an underscore needs at  *)
(* least three characters to be valid).  None stands for ValueError.       *)
int16(s) ==
    LET t == rstrip_ws(lstrip_ws(s))
        signed == t # <<>> /\ t[1] \in { "+", "-" }
        digits == IF signed THEN Tail(t) ELSE t
    IN  IF digits = <<>> \/ \E i \in 1..Len(digits) : ~IsHexDigit(digits[i])
        THEN None
        ELSE IF signed /\ t[1] = "-"
             THEN Some(0 - HexDigitsValue(digits))
             ELSE Some(HexDigitsValue(digits))

----------------------------------------------------------------------------
(* led_on: color presets and color parsing                                 *)

presets ==
    << [ name |-> << "r","e","d" >>,                 rgb |-> << 255, 0, 0 >> ],
       [ name |-> << "g","r","e","e","n" >>,         rgb |-> << 0, 255, 0 >> ],
       [ name |-> << "b","l","u","e" >>,             rgb |-> << 0, 0, 255 >> ],
       [ name |-> << "y","e","l","l","o","w" >>,     rgb |-> << 255, 255, 0 >> ],
       [ name |-> << "c","y","a","n" >>,             rgb |-> << 0, 255, 255 >> ],
       [ name |-> << "m","a","g","e","n","t","a" >>, rgb |-> << 255, 0, 255 >> ],
       [ name |-> << "w","h","i","t","e" >>,         rgb |-> << 255, 255, 255 >> ],
       [ name |-> << "o","r","a","n","g","e" >>,     rgb |-> << 255, 128, 0 >> ] >>

in_presets(name) == \E i \in 1..Len(presets) : presets[i].name = name
presets_get(name) ==
    presets[CHOOSE i \in 1..Len(presets) : presets[i].name = name].rgb

\* the three slices of hex_color read by the try block, mutated: g reads RR
hex_slices_swapped(hex_color) ==
    << slice(hex_color, 0, 2), slice(hex_color, 0, 2), slice(hex_color, 4, 6) >>

\* hex_color[0:2], hex_color[2:4], hex_color[4:6]
hex_slices(hex_color) ==
    << slice(hex_color, 0, 2), slice(hex_color, 2, 4), slice(hex_color, 4, 6) >>

(* The "Parse color" block of led_on.  The result is either                *)
(* [ok |-> TRUE, rgb |-> <<r, g, b>>] or [ok |-> FALSE, console |-> the    *)
(* messages printed before typer.Exit(1)].                                 *)
parse_color(color) ==
    IF startswith(color, "#")
    THEN LET hex_color == lstrip(color, "#")
         IN  IF Len(hex_color) # 6
             THEN [ ok |-> FALSE,
                    console |-> << "Error: Hex color must be #RRGGBB format" >> ]
             ELSE LET parts == hex_slices(hex_color)
                      r == int16(parts[1])
                      g == int16(parts[2])
                      b == int16(parts[3])
                  IN  IF r = None \/ g = None \/ b = None
                      THEN [ ok |-> FALSE,
                             console |-> << "Error: Invalid hex color" >> ]
                      ELSE [ ok |-> TRUE, rgb |-> << r[1], g[1], b[1] >> ]
    ELSE IF in_presets(lower(color))
         THEN [ ok |-> TRUE, rgb |-> presets_get(lower(color)) ]
         ELSE [ ok |-> FALSE,
                console |-> << "Error: Unknown color", "Available colors" >> ]

----------------------------------------------------------------------------
(* Command-line inputs explored                                            *)

\* every upper/lower-case spelling of a name
Spellings(name) ==
    { [ i \in 1..Len(name) |-> IF i \in up THEN upper_char(name[i]) ELSE name[i] ] :
        up \in SUBSET (1..Len(name)) }

PresetSpellings == UNION { Spellings(presets[i].name) : i \in 1..Len(presets) }

\* '#' followed by six characters drawn from a sample of the hex digits
HexSample == { "0", "9", "a", "F" }
HexArgs == { << "#" >> \o h : h \in [ 1..6 -> HexSample ] }

\* other arguments: malformed hex, unknown names, signs and doubled '#'
OtherColors ==
    { << >>,
      << "#" >>,
      << "#","f","f","f" >>,
      << "#","f","f","0","0","0","0","0" >>,
      << "#","g","g","0","0","0","0" >>,
      << "#","0","x","0","0","0","0" >>,
      << "#","+","f","0","0","0","0" >>,
      << "#","-","f","0","0","0","0" >>,
      << "#"," ","f","0","0","0","0" >>,
      << "#","#","f","f","0","0","0","0" >>,
      << "f","f","0","0","0","0" >>,
      << "p","u","r","p","l","e" >>,
      << "r","e","d"," " >>,
      << "R","E","D","#" >> }

ColorArgs == PresetSpellings \cup HexArgs \cup OtherColors

ActionArgs == { "start", "stop", "arm", "disarm", "START", "Arm", "pause", "" }

SessionArgs == { "20250117/7BF3655C", "" }

\* limits written in the validation of settings_set
BLE_NAME_MAX == 31
PCB_VARIANT_MIN == 0
PCB_VARIANT_MAX == 255

NameOfLen(n) == [ i \in 1..n |-> "T" ]
BleNameArgs ==
    { None } \cup
    { Some(NameOfLen(n)) :
        n \in { 0, 1 } \cup ((BLE_NAME_MAX - 1)..(BLE_NAME_MAX + BleNameOver)) }
PpsArgs == { None, Some(TRUE), Some(FALSE) }
PcbVariantArgs ==
    { None } \cup
    { Some(v) : v \in { PCB_VARIANT_MIN - 1, PCB_VARIANT_MIN, PCB_VARIANT_MIN + 1,
                        PCB_VARIANT_MAX - 1, PCB_VARIANT_MAX, PCB_VARIANT_MAX + 1 } }
LogBackendArgs ==
    { None } \cup
    { Some(v) : v \in { "fatfs", "littlefs", "sdcard", "internal", "SDCARD", "" } }

NoArgs == [ none |-> TRUE ]

----------------------------------------------------------------------------
(* Messages                                                                *)

\* an instance of a command class: the request handed to smpclient.request
Request(cls, fields) ==
    [ type |-> cls.name, group |-> cls.group, opcode |-> cls.opcode,
      fields |-> fields ]

(* What smpclient.request may return for a request of class cls: an        *)
(* instance of cls._Response.  success is the response's success flag      *)
(* (LoggerControl, SettingsSet, SessionDelete) and has_extra tells whether *)
(* its optional part is present (sessions non-empty, session_id,           *)
(* files_deleted, error, note).                                            *)
Responses(cls) ==
    { [ type |-> cls.response.name, group |-> cls.response.group,
        opcode |-> cls.response.opcode, success |-> s, has_extra |-> e ] :
        s \in BOOLEAN, e \in BOOLEAN }

----------------------------------------------------------------------------
(* Steps shared by the handlers                                            *)

Init ==
    /\ catalog = Catalog
    /\ pc = "shell"
    /\ cmd = ""
    /\ args = NoArgs
    /\ connected = FALSE
    /\ connects = 0
    /\ sent = << >>
    /\ response = None
    /\ console = << >>
    /\ exit_code = None

\* the command has not been dispatched yet
CanInvoke == pc = "shell"

Dispatch(c, a) ==
    /\ cmd' = c
    /\ args' = a
    /\ UNCHANGED << catalog, connected, connects, sent, response >>

\* the handler body reaches asyncio.run(f())
RunF(c, a) ==
    /\ CanInvoke
    /\ Dispatch(c, a)
    /\ console' = << >>
    /\ exit_code' = None
    /\ pc' = "connect"

\* the handler body prints msgs and raises typer.Exit(code)
Exit(c, a, msgs, code) ==
    /\ CanInvoke
    /\ Dispatch(c, a)
    /\ console' = msgs
    /\ exit_code' = Some(code)
    /\ pc' = "exited"

(* await connect_with_spinner(smpclient, options.timeout): it returns with *)
(* the connection made, or raises and the process ends with exit code 1.   *)
connect_with_spinner ==
    /\ pc = "connect"
    /\ connects' = connects + 1
    /\ \/ /\ connected' = TRUE
          /\ pc' = "request"
          /\ UNCHANGED exit_code
       \/ /\ connected' = FALSE
          /\ pc' = "exited"
          /\ exit_code' = Some(1)
    /\ UNCHANGED << catalog, cmd, args, sent, response, console >>

\* f() calls smpclient.request(req), after printing msgs
Send(c, req, msgs) ==
    /\ pc = "request"
    /\ cmd = c
    /\ sent' = Append(sent, req)
    /\ console' = console \o msgs
    /\ pc' = "await"
    /\ UNCHANGED << catalog, cmd, args, connected, connects, response, exit_code >>

\* smpclient.request returns rsp; f() prints msgs and the handler returns
Return(c, rsp, msgs) ==
    /\ pc = "await"
    /\ cmd = c
    /\ response' = Some(rsp)
    /\ console' = console \o msgs
    /\ pc' = "exited"
    /\ exit_code' = Some(0)
    /\ UNCHANGED << catalog, cmd, args, connected, connects, sent >>

\* smpclient.request raises (no response): the process ends with exit code 1
request_raises ==
    /\ pc = "await"
    /\ pc' = "exited"
    /\ exit_code' = Some(1)
    /\ UNCHANGED << catalog, cmd, args, connected, connects, sent, response, console >>

----------------------------------------------------------------------------
(* session-list                                                            *)

session_list == RunF("session-list", NoArgs)

session_list_request ==
    Send("session-list", Request(SessionList, [ none |-> TRUE ]), << >>)

session_list_response ==
    \E rsp \in Responses(SessionList) :
        Return("session-list", rsp,
               IF rsp.has_extra THEN << "Tempo-BT Sessions" >>
               ELSE << "No sessions found" >>)

(* storage-info                                                            *)

storage_info == RunF("storage-info", NoArgs)

storage_info_request ==
    Send("storage-info", Request(StorageInfo, [ none |-> TRUE ]), << >>)

storage_info_response ==
    \E rsp \in Responses(StorageInfo) :
        Return("storage-info", rsp, << "Tempo-BT Storage Info" >>)

----------------------------------------------------------------------------
(* led-on, led-off                                                         *)

led_on ==
    /\ CanInvoke
    /\ \E color \in ColorArgs :
           LET parsed == parse_color(color)
           IN  IF parsed.ok
               THEN RunF("led-on", [ color |-> color, r |-> parsed.rgb[1],
                                     g |-> parsed.rgb[2], b |-> parsed.rgb[3] ])
               ELSE Exit("led-on", [ color |-> color ], parsed.console, 1)

led_on_request ==
    Send("led-on",
         Request(LEDControl,
                 [ enable |-> TRUE, r |-> args.r, g |-> args.g, b |-> args.b ]),
         << >>)

led_on_response ==
    \E rsp \in Responses(LEDControl) :
        Return("led-on", rsp, << "LED set to" >>)

led_off == RunF("led-off", NoArgs)

led_off_request ==
    Send("led-off",
         Request(LEDControl, [ enable |-> FALSE, r |-> 0, g |-> 0, b |-> 0 ]),
         << >>)

led_off_response ==
    \E rsp \in Responses(LEDControl) :
        Return("led-off", rsp, << "LED override disabled" >>)

----------------------------------------------------------------------------
(* logger-start, logger-stop, logger-arm, logger-disarm, logger-control    *)

logger_start == RunF("logger-start", NoArgs)

logger_start_request ==
    Send("logger-start", Request(LoggerControl, [ action |-> "start" ]), << >>)

\* fault variant: a failed start is sent again
logger_start_response_retry ==
    \E rsp \in Responses(LoggerControl) :
        IF rsp.success
        THEN Return("logger-start", rsp, << "Logger started successfully" >>)
        ELSE /\ pc = "await"
             /\ cmd = "logger-start"
             /\ response' = Some(rsp)
             /\ console' = console \o << "Failed to start logger" >>
             /\ pc' = "request"
             /\ UNCHANGED << catalog, cmd, args, connected, connects, sent, exit_code >>

logger_start_response ==
    \E rsp \in Responses(LoggerControl) :
        Return("logger-start", rsp,
               IF rsp.success
               THEN << "Logger started successfully" >> \o
                    (IF rsp.has_extra THEN << "Session ID", "Session Path" >>
                     ELSE << >>)
               ELSE << "Failed to start logger" >>)

logger_stop == RunF("logger-stop", NoArgs)

logger_stop_request ==
    Send("logger-stop", Request(LoggerControl, [ action |-> "stop" ]), << >>)

logger_stop_response ==
    \E rsp \in Responses(LoggerControl) :
        Return("logger-stop", rsp,
               IF rsp.success THEN << "Logger stopped successfully" >>
               ELSE << "Failed to stop logger" >>)

logger_arm == RunF("logger-arm", NoArgs)

logger_arm_request ==
    Send("logger-arm", Request(LoggerControl, [ action |-> "arm" ]), << >>)

logger_arm_response ==
    \E rsp \in Responses(LoggerControl) :
        Return("logger-arm", rsp,
               IF rsp.success THEN << "Logger armed successfully" >>
               ELSE << "Failed to arm logger" >>)

logger_disarm == RunF("logger-disarm", NoArgs)

logger_disarm_request ==
    Send("logger-disarm", Request(LoggerControl, [ action |-> "disarm" ]), << >>)

logger_disarm_response ==
    \E rsp \in Responses(LoggerControl) :
        Return("logger-disarm", rsp,
               IF rsp.success THEN << "Logger disarmed successfully" >>
               ELSE << "Failed to disarm logger" >>)

valid_actions == << "start", "stop", "arm", "disarm" >>

\* fault variant: the error is printed but typer.Exit(1) is not raised
logger_control_no_exit ==
    \E action \in ActionArgs :
        /\ CanInvoke
        /\ Dispatch("logger-control", [ action |-> action ])
        /\ console' = IF \E i \in 1..Len(valid_actions) : valid_actions[i] = action
                      THEN << >>
                      ELSE << "Error: Invalid action", "Valid actions" >>
        /\ exit_code' = None
        /\ pc' = "connect"

logger_control ==
    /\ CanInvoke
    /\ \E action \in ActionArgs :
           IF \E i \in 1..Len(valid_actions) : valid_actions[i] = action
           THEN RunF("logger-control", [ action |-> action ])
           ELSE Exit("logger-control", [ action |-> action ],
                     << "Error: Invalid action", "Valid actions" >>, 1)

logger_control_request ==
    Send("logger-control",
         Request(LoggerControl, [ action |-> args.action ]), << >>)

logger_control_response ==
    \E rsp \in Responses(LoggerControl) :
        Return("logger-control", rsp,
               IF rsp.success
               THEN << "Logger action successful" >> \o
                    (IF args.action = "start" /\ rsp.has_extra
                     THEN << "Session ID", "Session Path" >> ELSE << >>)
               ELSE << "Logger action failed" >>)

----------------------------------------------------------------------------
(* session-delete                                                          *)

\* confirm is the user's answer to typer.confirm, asked unless --yes
session_delete ==
    /\ CanInvoke
    /\ \E session \in SessionArgs, yes \in BOOLEAN, confirm \in BOOLEAN :
           IF ~yes /\ ~confirm
           THEN Exit("session-delete", [ session |-> session, yes |-> yes ],
                     << "Deletion cancelled" >>, 0)
           ELSE RunF("session-delete", [ session |-> session, yes |-> yes ])

session_delete_request ==
    Send("session-delete",
         Request(SessionDelete, [ session |-> args.session ]), << >>)

session_delete_response ==
    \E rsp \in Responses(SessionDelete) :
        Return("session-delete", rsp,
               IF rsp.success
               THEN << "Session deleted successfully" >> \o
                    (IF rsp.has_extra THEN << "Files deleted" >> ELSE << >>)
               ELSE << "Failed to delete session" >> \o
                    (IF rsp.has_extra THEN << "Error" >> ELSE << >>))

----------------------------------------------------------------------------
(* settings-get, settings-set                                              *)

settings_get == RunF("settings-get", NoArgs)

settings_get_request ==
    Send("settings-get", Request(SettingsGet, [ none |-> TRUE ]), << >>)

settings_get_response ==
    \E rsp \in Responses(SettingsGet) :
        Return("settings-get", rsp, << "Tempo-BT Device Settings" >>)

\* the values the validation of settings_set lets through as log backend
valid_log_backends == << "fatfs", "littlefs" >>

(* The checks of settings_set before f(), in order.  None when the options *)
(* pass, otherwise the error message printed before typer.Exit(1).         *)
settings_set_validate(ble_name, pps_enabled, pcb_variant, log_backend) ==
    IF ble_name = None /\ pps_enabled = None /\ pcb_variant = None
       /\ log_backend = None
    THEN Some("Error: No settings provided")
    ELSE IF ble_name # None /\ Len(ble_name[1]) > BLE_NAME_MAX
    THEN Some("Error: BLE name too long")
    ELSE IF pcb_variant # None
            /\ ~(PCB_VARIANT_MIN <= pcb_variant[1] /\ pcb_variant[1] <= PCB_VARIANT_MAX)
    THEN Some("Error: PCB variant must be 0-255")
    ELSE IF log_backend # None
            /\ ~(\E i \in 1..Len(valid_log_backends) :
                    valid_log_backends[i] = log_backend[1])
    THEN Some("Error: Invalid log backend")
    ELSE None

settings_set ==
    /\ CanInvoke
    /\ \E ble_name \in BleNameArgs, pps_enabled \in PpsArgs,
          pcb_variant \in PcbVariantArgs, log_backend \in LogBackendArgs :
           LET a == [ ble_name |-> ble_name, pps_enabled |-> pps_enabled,
                      pcb_variant |-> pcb_variant, log_backend |-> log_backend ]
               err == settings_set_validate(ble_name, pps_enabled, pcb_variant,
                                            log_backend)
           IN  IF err # None
               THEN Exit("settings-set", a, << err[1] >>, 1)
               ELSE RunF("settings-set", a)

\* fault variant of the test "if pps_enabled is not None": "if pps_enabled"
pps_given_truthy(pps_enabled) == pps_enabled # None /\ pps_enabled[1]

\* the test "if pps_enabled is not None" of f()
pps_given(pps_enabled) == pps_enabled # None

(* f() of settings_set up to the request: request = SettingsSet() has all  *)
(* four fields None; each option that is not None is assigned to its field *)
(* and adds one line to settings_to_change.                                *)
settings_set_fields(a) ==
    [ ble_name    |-> IF a.ble_name # None THEN a.ble_name ELSE None,
      pps_enabled |-> IF pps_given(a.pps_enabled) THEN a.pps_enabled ELSE None,
      pcb_variant |-> IF a.pcb_variant # None THEN a.pcb_variant ELSE None,
      log_backend |-> IF a.log_backend # None THEN a.log_backend ELSE None ]

settings_to_change(a) ==
    (IF a.ble_name # None THEN << "BLE Name" >> ELSE << >>) \o
    (IF pps_given(a.pps_enabled) THEN << "PPS Enabled" >> ELSE << >>) \o
    (IF a.pcb_variant # None THEN << "PCB Variant" >> ELSE << >>) \o
    (IF a.log_backend # None THEN << "Log Backend" >> ELSE << >>)

settings_set_request ==
    Send("settings-set",
         Request(SettingsSet, settings_set_fields(args)),
         << "Setting:" >> \o settings_to_change(args))

settings_set_response ==
    \E rsp \in Responses(SettingsSet) :
        Return("settings-set", rsp,
               IF rsp.success
               THEN << "Settings updated successfully!", "Current Settings" >> \o
                    (IF rsp.has_extra THEN << "Note" >> ELSE << >>)
               ELSE << "Failed to update settings" >>)

----------------------------------------------------------------------------
Next ==
    \/ session_list \/ session_list_request \/ session_list_response
    \/ storage_info \/ storage_info_request \/ storage_info_response
    \/ led_on \/ led_on_request \/ led_on_response
    \/ led_off \/ led_off_request \/ led_off_response
    \/ logger_start \/ logger_start_request \/ logger_start_response
    \/ logger_stop \/ logger_stop_request \/ logger_stop_response
    \/ logger_arm \/ logger_arm_request \/ logger_arm_response
    \/ logger_disarm \/ logger_disarm_request \/ logger_disarm_response
    \/ logger_control \/ logger_control_request \/ logger_control_response
    \/ session_delete \/ session_delete_request \/ session_delete_response
    \/ settings_get \/ settings_get_request \/ settings_get_response
    \/ settings_set \/ settings_set_request \/ settings_set_response
    \/ connect_with_spinner
    \/ request_raises

Spec == Init /\ [][Next]_vars

----------------------------------------------------------------------------
(* Properties                                                              *)

\* the error messages printed by the argument checks of the handlers
ValidationErrors ==
    { "Error: Hex color must be #RRGGBB format", "Error: Invalid hex color",
      "Error: Unknown color", "Error: Invalid action",
      "Error: No settings provided", "Error: BLE name too long",
      "Error: PCB variant must be 0-255", "Error: Invalid log backend" }

\* the handler has printed a validation error
Rejected == console # << >> /\ console[1] \in ValidationErrors

\* f() of this invocation has called smpclient.request
RequestStepDone == pc = "await" \/ (pc = "exited" /\ connected)

(* C1: in every invocation of every command the connect step has completed *)
(* before a request is sent, connect is called at most once, at most one   *)
(* request is sent, and once a response has arrived (success flag true or  *)
(* false) the invocation is over with exactly that one request sent.       *)
C1_ConnectThenOneRequest ==
    /\ Len(sent) <= 1
    /\ connects <= 1
    /\ sent # << >> => connected /\ connects = 1
    /\ response # None => pc = "exited" /\ Len(sent) = 1

C1_Witness ==
    /\ cmd = "logger-start"
    /\ pc = "exited"
    /\ response # None
    /\ ~response[1].success
    /\ Len(sent) = 1

(* C2: every declared command ID (0 through 7) has exactly one request     *)
(* type and exactly one response type in the message catalog.              *)
C2_EveryOpcodeHasOnePair ==
    \A op \in DeclaredOpcodes :
        /\ Cardinality({ c \in RequestTypes(catalog) : c.opcode = op }) = 1
        /\ Cardinality({ c \in ResponseTypes(catalog) : c.opcode = op }) = 1

(* C3: every catalog type carries group 64; the request and the response   *)
(* of one operation carry the same opcode; no two operations, and no two   *)
(* request types or two response types, share (group, opcode); so every    *)
(* request sent carries group 64 and the response returned for it carries  *)
(* the (group, opcode) of exactly one request type, the one that was sent. *)
C3_GroupOpcodeCorrelation ==
    /\ \A c \in catalog : c.group = 64
    /\ \A o \in Operations :
         /\ o.request.opcode = o.response.opcode
         /\ o.request.group = o.response.group
    /\ \A o1, o2 \in Operations :
         (o1.group = o2.group /\ o1.opcode = o2.opcode) => o1 = o2
    /\ \A c1, c2 \in catalog :
         (c1.kind = c2.kind /\ c1.group = c2.group /\ c1.opcode = c2.opcode)
            => c1 = c2
    /\ \A i \in 1..Len(sent) : sent[i].group = 64
    /\ response # None =>
         /\ response[1].group = sent[1].group
         /\ response[1].opcode = sent[1].opcode
         /\ { o.name : o \in { o \in Operations :
                                 /\ o.request.group = response[1].group
                                 /\ o.request.opcode = response[1].opcode } }
              = { sent[1].type }

C3_Witness ==
    /\ cmd = "settings-set"
    /\ response # None
    /\ response[1].type = "SettingsSetResponse"
    /\ sent[1].type = "SettingsSet"

\* arguments the three validating commands must refuse
ArgsInvalid ==
    \/ /\ cmd = "led-on"
       /\ ~startswith(args.color, "#")
       /\ ~in_presets(lower(args.color))
    \/ /\ cmd = "led-on"
       /\ startswith(args.color, "#")
       /\ Len(args.color) < 7
    \/ /\ cmd = "logger-control"
       /\ args.action \notin { "start", "stop", "arm", "disarm" }
    \/ /\ cmd = "settings-set"
       /\ \/ /\ args.ble_name = None /\ args.pps_enabled = None
             /\ args.pcb_variant = None /\ args.log_backend = None
          \/ args.ble_name # None /\ Len(args.ble_name[1]) > 31
          \/ args.pcb_variant # None
               /\ (args.pcb_variant[1] < 0 \/ args.pcb_variant[1] > 255)
          \/ args.log_backend # None
               /\ args.log_backend[1] \notin
                     { "fatfs", "littlefs", "sdcard", "internal" }

(* C4: when led-on, logger-control or settings-set rejects its arguments,  *)
(* the invocation is over with exit code 1 and neither the connect step    *)
(* nor a request has been performed; arguments that are invalid are        *)
(* rejected.                                                               *)
C4_ValidationBeforeDevice ==
    /\ Rejected =>
         /\ pc = "exited"
         /\ exit_code = Some(1)
         /\ connects = 0
         /\ ~connected
         /\ sent = << >>
         /\ response = None
    /\ ArgsInvalid => Rejected

C4_Witness ==
    /\ cmd = "settings-set"
    /\ Rejected
    /\ console[1] = "Error: PCB variant must be 0-255"
    /\ exit_code = Some(1)

\* the options of a settings-set invocation other than --log-backend pass
OtherSettingsValid ==
    /\ args.ble_name # None => Len(args.ble_name[1]) <= 31
    /\ args.pcb_variant # None =>
         (0 <= args.pcb_variant[1] /\ args.pcb_variant[1] <= 255)

(* C5: settings-set with --log-backend sdcard or --log-backend internal    *)
(* (the values the option help names) and otherwise valid options passes   *)
(* validation and sends one SettingsSet request whose log_backend is that  *)
(* value.                                                                  *)
C5_DocumentedBackendsAccepted ==
    ( /\ cmd = "settings-set"
      /\ args.log_backend \in { Some("sdcard"), Some("internal") }
      /\ OtherSettingsValid )
    => /\ ~Rejected
       /\ Len(sent) <= 1
       /\ RequestStepDone =>
            /\ Len(sent) = 1
            /\ sent[1].type = "SettingsSet"
            /\ sent[1].fields.log_backend = args.log_backend

\* a preset name in some letter case
IsPresetSpelling(color) == in_presets(lower(color))

\* '#' followed by exactly six hexadecimal digits
IsHexForm(color) ==
    /\ Len(color) = 7
    /\ color[1] = "#"
    /\ \A i \in 2..7 : IsHexDigit(color[i])

ByteOf(hi, lo) == 16 * HexDigitValue(hi) + HexDigitValue(lo)

ExpectedRGB(color) ==
    IF IsHexForm(color)
    THEN << ByteOf(color[2], color[3]), ByteOf(color[4], color[5]),
            ByteOf(color[6], color[7]) >>
    ELSE presets_get(lower(color))

(* C6: for a preset name in any letter case and for '#' followed by six    *)
(* hex digits RRGGBB, led-on is not rejected and, once the connect step    *)
(* has returned and f() has made its request, exactly one request has been *)
(* sent: LEDControl with enable = TRUE and (r, g, b) the preset's triple,  *)
(* respectively the bytes RR, GG, BB.                                      *)
C6_LedOnColorMapping ==
    ( cmd = "led-on" /\ (IsPresetSpelling(args.color) \/ IsHexForm(args.color)) )
    => /\ ~Rejected
       /\ Len(sent) <= 1
       /\ RequestStepDone =>
            sent = << [ type |-> "LEDControl", group |-> 64, opcode |-> 3,
                        fields |-> [ enable |-> TRUE,
                                     r |-> ExpectedRGB(args.color)[1],
                                     g |-> ExpectedRGB(args.color)[2],
                                     b |-> ExpectedRGB(args.color)[3] ] ] >>

C6_Witness ==
    /\ cmd = "led-on"
    /\ args.color = << "#", "F", "F", "9", "a", "0", "0" >>
    /\ pc = "exited"
    /\ response # None
    /\ sent[1].fields = [ enable |-> TRUE, r |-> 255, g |-> 154, b |-> 0 ]

C6_WitnessPreset ==
    /\ cmd = "led-on"
    /\ args.color = << "O", "r", "A", "n", "g", "e" >>
    /\ pc = "await"
    /\ sent[1].fields = [ enable |-> TRUE, r |-> 255, g |-> 128, b |-> 0 ]

(* C7: every SettingsSet request sent has each of ble_name, pps_enabled,   *)
(* pcb_variant, log_backend equal to the supplied value when one was       *)
(* supplied and None otherwise, with at least one field not None; with no  *)
(* option supplied the command ends with exit code 1 and sends nothing.    *)
C7_OnlySuppliedSettingsSent ==
    cmd = "settings-set" =>
      /\ \A i \in 1..Len(sent) :
           /\ sent[i].type = "SettingsSet"
           /\ sent[i].fields.ble_name = args.ble_name
           /\ sent[i].fields.pps_enabled = args.pps_enabled
           /\ sent[i].fields.pcb_variant = args.pcb_variant
           /\ sent[i].fields.log_backend = args.log_backend
           /\ \/ sent[i].fields.ble_name # None
              \/ sent[i].fields.pps_enabled # None
              \/ sent[i].fields.pcb_variant # None
              \/ sent[i].fields.log_backend # None
      /\ RequestStepDone => Len(sent) = 1
      /\ ( /\ args.ble_name = None /\ args.pps_enabled = None
           /\ args.pcb_variant = None /\ args.log_backend = None )
         => /\ pc = "exited"
            /\ exit_code = Some(1)
            /\ connects = 0
            /\ sent = << >>

C7_Witness ==
    /\ cmd = "settings-set"
    /\ args.ble_name = None
    /\ args.pps_enabled = Some(FALSE)
    /\ args.pcb_variant = None
    /\ args.log_backend = None
    /\ Len(sent) = 1
    /\ sent[1].fields.pps_enabled = Some(FALSE)

C7_WitnessNoOption ==
    /\ cmd = "settings-set"
    /\ args.ble_name = None /\ args.pps_enabled = None
    /\ args.pcb_variant = None /\ args.log_backend = None
    /\ exit_code = Some(1)

====
